---- MODULE Spec2Model ----
(***************************************************************************)
(* A model of two parts of the ANISE toolkit:                              *)
(*   - structure/lookuptable.rs : the bounded bidirectional LookUpTable,   *)
(*     its integrity check and its DER encoding / decoding;                *)
(*   - orientations/paths.rs    : discovery of the orientation root, the   *)
(*     path of a frame to that root and the common node of two paths.      *)
(***************************************************************************)
EXTENDS Integers, Sequences, FiniteSets, TLC

VARIABLES
    by_id,      \* LookUpTable::by_id
    by_name,    \* LookUpTable::by_name
    call,       \* the call on the table that is awaiting its return
    ret,        \* what that call returned
    decoded,    \* the table LookUpTable::from_der built, when that was the call
    history,    \* how the table was filled since it was empty
    almanac,    \* the Almanac: its loaded BPCs and its planetary dataset
    query,      \* the query on the almanac that is awaiting its return
    answer      \* what that query returned

lutVars == <<by_id, by_name, call, ret, decoded, history>>
almanacVars == <<almanac, query, answer>>
vars == <<by_id, by_name, call, ret, decoded, history, almanac, query, answer>>

(***************************************************************************)
(* Part 1: structure/lookuptable.rs                                        *)
(***************************************************************************)

\* pub const MAX_LUT_ENTRIES: usize = 32;
MAX_LUT_ENTRIES == 32

\* Bounds of the inputs the model draws.
MaxKey == 2
NumEntries == 2

\* num_bytes of the unit tests: entry i spans [i * 363, (i + 1) * 363).
NUM_BYTES == 363

\* struct Entry { start_idx: u32, end_idx: u32 }
Entry(i) == [start_idx |-> i * NUM_BYTES, end_idx |-> (i + 1) * NUM_BYTES]

\* Entry::default()
EntryDefault == [start_idx |-> 0, end_idx |-> 0]

Entries == {EntryDefault} \cup {Entry(i) : i \in 1..(NumEntries - 1)}

\* The ids and names the callers pass.  A name n stands for the string
\* "Name<n>" of the unit tests; only equality of names matters to the table.
Ids == 1..MaxKey
Names == 1..MaxKey

\* The ids and names of the tables that are already filled when a run starts
\* (repr_ids_only: id = -20 - i; repr_names_only: "Name<i>").
PrefillId(i) == -20 - i
PrefillName(i) == 100 + i

\* An FnvIndexMap is an insertion-ordered sequence of (key, value) buckets.
Keys(m) == {m[i].key : i \in 1..Len(m)}
Values(m) == {m[i].value : i \in 1..Len(m)}
IndexOf(m, k) == CHOOSE i \in 1..Len(m) : m[i].key = k
Get(m, k) == m[IndexOf(m, k)].value

\* Insert with the capacity test off by one: a full map takes one more key.
InsertOffByOne(m, k, v) ==
    IF k \in Keys(m)
    THEN [ok |-> TRUE, map |-> [m EXCEPT ![IndexOf(m, k)].value = v]]
    ELSE IF Len(m) > MAX_LUT_ENTRIES
         THEN [ok |-> FALSE, map |-> m]
         ELSE [ok |-> TRUE, map |-> Append(m, [key |-> k, value |-> v])]

\* FnvIndexMap::insert: an existing key keeps its place and takes the new
\* value (Ok(Some(old))); a new key is pushed last (Ok(None)) unless the map
\* already holds its capacity, in which case the pair is handed back (Err).
Insert(m, k, v) ==
    IF k \in Keys(m)
    THEN [ok |-> TRUE, map |-> [m EXCEPT ![IndexOf(m, k)].value = v]]
    ELSE IF Len(m) >= MAX_LUT_ENTRIES
         THEN [ok |-> FALSE, map |-> m]
         ELSE [ok |-> TRUE, map |-> Append(m, [key |-> k, value |-> v])]

EmptyLut == [by_id |-> <<>>, by_name |-> <<>>]
Self == [by_id |-> by_id, by_name |-> by_name]

\* append that forgets the name side.
appendIdSideOnly(self, id, name, entry) ==
    LET r1 == Insert(self.by_id, id, entry) IN
    IF ~r1.ok
    THEN [ret |-> "StructureIsFull", lut |-> self]
    ELSE [ret |-> "Ok", lut |-> [self EXCEPT !.by_id = r1.map]]

\* LookUpTable::append
append(self, id, name, entry) ==
    LET r1 == Insert(self.by_id, id, entry) IN
    IF ~r1.ok
    THEN [ret |-> "StructureIsFull", lut |-> self]
    ELSE LET r2 == Insert(self.by_name, name, entry) IN
         IF ~r2.ok
         THEN [ret |-> "StructureIsFull", lut |-> [self EXCEPT !.by_id = r1.map]]
         ELSE [ret |-> "Ok", lut |-> [by_id |-> r1.map, by_name |-> r2.map]]

\* LookUpTable::append_id
append_id(self, id, entry) ==
    LET r == Insert(self.by_id, id, entry) IN
    IF ~r.ok
    THEN [ret |-> "StructureIsFull", lut |-> self]
    ELSE [ret |-> "Ok", lut |-> [self EXCEPT !.by_id = r.map]]

\* LookUpTable::append_name
append_name(self, name, entry) ==
    LET r == Insert(self.by_name, name, entry) IN
    IF ~r.ok
    THEN [ret |-> "StructureIsFull", lut |-> self]
    ELSE [ret |-> "Ok", lut |-> [self EXCEPT !.by_name = r.map]]

\* check_integrity without its first branch (either map empty).
checkIntegrityNoEmptyCase(self) ==
    IF Len(self.by_id) # Len(self.by_name)
    THEN FALSE
    ELSE \A i \in 1..Len(self.by_id) :
            \E j \in 1..Len(self.by_name) :
                self.by_name[j].value = self.by_id[i].value

\* LookUpTable::check_integrity
check_integrity(self) ==
    IF Len(self.by_id) = 0 \/ Len(self.by_name) = 0
    THEN TRUE
    ELSE IF Len(self.by_id) # Len(self.by_name)
         THEN FALSE
         ELSE \A i \in 1..Len(self.by_id) :
                 \E j \in 1..Len(self.by_name) :
                     self.by_name[j].value = self.by_id[i].value

\* LookUpTable::der_encoding: the three sequences that are written.
der_encoding(self) ==
    LET use_id == Len(self.by_id) >= Len(self.by_name) IN
    [ids     |-> [i \in 1..Len(self.by_id) |-> self.by_id[i].key],
     names   |-> [i \in 1..Len(self.by_name) |-> self.by_name[i].key],
     entries |-> IF use_id
                 THEN [i \in 1..Len(self.by_id) |-> self.by_id[i].value]
                 ELSE [i \in 1..Len(self.by_name) |-> self.by_name[i].value]]

Min(a, b) == IF a <= b THEN a ELSE b

\* for (key, entry) in keys.iter().zip(entries.iter()) { map.insert(*key, *entry).unwrap(); }
\* on an empty map.  The sequences hold at most MAX_LUT_ENTRIES elements, so
\* no insert finds the map full: a key takes the place of its first
\* occurrence and the entry zipped with its last occurrence.
InsertZip(keys, entries) ==
    LET n == Min(Len(keys), Len(entries))
        first == {i \in 1..n : \A j \in 1..(i - 1) : keys[j] # keys[i]}
        last(k) == CHOOSE i \in 1..n : keys[i] = k /\ \A j \in (i + 1)..n : keys[j] # k
        pos(r) == CHOOSE i \in first : Cardinality({j \in first : j <= i}) = r
    IN  [r \in 1..Cardinality(first) |->
            [key |-> keys[pos(r)], value |-> entries[last(keys[pos(r)])]]]

\* decode giving up the table (an empty one is left) when it is not integral.
decodeRejectingSkew(der) ==
    LET lut == [by_id   |-> InsertZip(der.ids, der.entries),
                by_name |-> InsertZip(der.names, der.entries)]
    IN  IF check_integrity(lut) THEN lut ELSE EmptyLut

\* <LookUpTable as Decode>::decode, from the three decoded sequences.
decode(der) ==
    [by_id   |-> InsertZip(der.ids, der.entries),
     by_name |-> InsertZip(der.names, der.entries)]

\* PartialEq of two FnvIndexMaps: same length, and every key of the one is
\* in the other with the same value; the order of insertion plays no part.
MapEq(a, b) ==
    /\ Len(a) = Len(b)
    /\ \A i \in 1..Len(a) : a[i].key \in Keys(b) /\ Get(b, a[i].key) = a[i].value

\* #[derive(PartialEq)] of LookUpTable
LutEq(a, b) == MapEq(a.by_id, b.by_id) /\ MapEq(a.by_name, b.by_name)

\* The tables a run starts from, each the table that n calls leave of an
\* empty one: append(PrefillId(i), PrefillName(i), Entry(i)) for i = 0..n-1
\* (FilledBoth), append_id alone as in repr_ids_only (FilledIds), append_name
\* alone as in repr_names_only (FilledNames).
FilledIds(n) ==
    [by_id   |-> [i \in 1..n |-> [key |-> PrefillId(i - 1), value |-> Entry(i - 1)]],
     by_name |-> <<>>]

FilledNames(n) ==
    [by_id   |-> <<>>,
     by_name |-> [i \in 1..n |-> [key |-> PrefillName(i - 1), value |-> Entry(i - 1)]]]

FilledBoth(n) ==
    [by_id |-> FilledIds(n).by_id, by_name |-> FilledNames(n).by_name]

\* history: "unique_appends" while the table was filled by append alone, each
\* call with an id and a name the table did not hold yet; "appends" while it
\* was filled by append alone; "mixed" once append_id or append_name was used.
AfterAppend(h, fresh) ==
    IF h = "unique_appends" /\ ~fresh THEN "appends" ELSE h

NoCall == [kind |-> "idle", id |-> 0, name |-> 0, entry |-> EntryDefault]

StartLut(start) ==
    CASE start = "empty" -> EmptyLut
      [] start = "both"  -> FilledBoth(MAX_LUT_ENTRIES - 1)
      [] start = "ids"   -> FilledIds(MAX_LUT_ENTRIES - 1)
      [] start = "names" -> FilledNames(MAX_LUT_ENTRIES - 1)

\* Almanac::default()
EmptyAlmanac == [bpc_data |-> <<>>, planetary_data |-> <<>>]

NoFrame == [ephemeris_id |-> 0, orientation_id |-> 0]
NoQuery == [kind |-> "idle", from |-> NoFrame, to |-> NoFrame]
NoAnswer == [status |-> "none", len |-> 0, path |-> <<>>, node |-> 0]

LutInit ==
    /\ \E start \in {"empty", "both", "ids", "names"} :
          /\ by_id = StartLut(start).by_id
          /\ by_name = StartLut(start).by_name
          /\ history = IF start \in {"empty", "both"} THEN "unique_appends" ELSE "mixed"
    /\ call = NoCall
    /\ ret = "none"
    /\ decoded = <<>>
    /\ almanac = EmptyAlmanac
    /\ query = NoQuery
    /\ answer = NoAnswer

\* lut.append(id, name, entry)
Append_(id, name, entry) ==
    /\ call.kind = "idle"
    /\ LET r == append(Self, id, name, entry) IN
          /\ by_id' = r.lut.by_id
          /\ by_name' = r.lut.by_name
          /\ ret' = r.ret
    /\ call' = [kind |-> "append", id |-> id, name |-> name, entry |-> entry]
    /\ history' = AfterAppend(history, id \notin Keys(by_id) /\ name \notin Keys(by_name))
    /\ UNCHANGED <<decoded, almanacVars>>

\* lut.append_id(id, entry)
AppendId(id, entry) ==
    /\ call.kind = "idle"
    /\ LET r == append_id(Self, id, entry) IN
          /\ by_id' = r.lut.by_id
          /\ by_name' = r.lut.by_name
          /\ ret' = r.ret
    /\ call' = [kind |-> "append_id", id |-> id, name |-> 0, entry |-> entry]
    /\ history' = "mixed"
    /\ UNCHANGED <<decoded, almanacVars>>

\* lut.append_name(name, entry)
AppendName(name, entry) ==
    /\ call.kind = "idle"
    /\ LET r == append_name(Self, name, entry) IN
          /\ by_id' = r.lut.by_id
          /\ by_name' = r.lut.by_name
          /\ ret' = r.ret
    /\ call' = [kind |-> "append_name", id |-> 0, name |-> name, entry |-> entry]
    /\ history' = "mixed"
    /\ UNCHANGED <<decoded, almanacVars>>

\* lut.check_integrity()
CheckIntegrity ==
    /\ call.kind = "idle"
    /\ ret' = IF check_integrity(Self) THEN "true" ELSE "false"
    /\ call' = [NoCall EXCEPT !.kind = "check_integrity"]
    /\ UNCHANGED <<by_id, by_name, decoded, history, almanacVars>>

\* repr.encode_to_vec(&mut buf); LookUpTable::from_der(&buf)
RoundTrip ==
    /\ call.kind = "idle"
    /\ decoded' = <<decode(der_encoding(Self))>>
    /\ ret' = "Ok"
    /\ call' = [NoCall EXCEPT !.kind = "from_der"]
    /\ UNCHANGED <<by_id, by_name, history, almanacVars>>

\* The caller takes the result and is free to call again.
Return ==
    /\ call.kind # "idle"
    /\ call' = NoCall
    /\ ret' = "none"
    /\ decoded' = <<>>
    /\ UNCHANGED <<by_id, by_name, history, almanacVars>>

LutNext ==
    \/ \E id \in Ids, name \in Names, entry \in Entries : Append_(id, name, entry)
    \/ \E id \in Ids, entry \in Entries : AppendId(id, entry)
    \/ \E name \in Names, entry \in Entries : AppendName(name, entry)
    \/ CheckIntegrity
    \/ RoundTrip
    \/ Return

\* Bound of the sequences of a DER encoding handed to from_der.
MaxDer == 2

\* Sequences of at most n elements of S.
SeqsOver(S, n) == UNION {[1..k -> S] : k \in 0..n}

\* The DER encodings from_der is handed: any three sequences of ids, names
\* and entries, of any relative lengths, ids and names repeated or not.
Ders ==
    [ids : SeqsOver(Ids, MaxDer), names : SeqsOver(Names, MaxDer),
     entries : SeqsOver(Entries, MaxDer)]

\* The sequences of the encoding a call of from_der was handed.
DerOf(c) == [ids |-> c.id, names |-> c.name, entries |-> c.entry]

\* A caller holding a DER encoding, about to hand it to from_der.
DecodeInit ==
    /\ \E der \in Ders :
          call = [kind |-> "der", id |-> der.ids, name |-> der.names, entry |-> der.entries]
    /\ by_id = <<>>
    /\ by_name = <<>>
    /\ history = "unique_appends"
    /\ ret = "none"
    /\ decoded = <<>>
    /\ almanac = EmptyAlmanac
    /\ query = NoQuery
    /\ answer = NoAnswer

\* LookUpTable::from_der(&buf)
FromDer ==
    /\ call.kind = "der"
    /\ decoded' = <<decode(DerOf(call))>>
    /\ ret' = "Ok"
    /\ call' = [call EXCEPT !.kind = "decoded"]
    /\ UNCHANGED <<by_id, by_name, history, almanacVars>>

DecodeNext == FromDer

(***************************************************************************)
(* Part 2: orientations/paths.rs                                           *)
(***************************************************************************)

\* pub const MAX_TREE_DEPTH: usize = 8;
MAX_TREE_DEPTH == 8

\* constants::orientations
J2000 == 1
ECLIPJ2000 == 17

\* i32::MAX
I32_MAX == 2147483647

Abs(x) == IF x < 0 THEN 0 - x ELSE x

\* Option<NaifId>
None == <<>>
Some(x) == <<x>>

\* [None; MAX_TREE_DEPTH]
NoPath == [i \in 0..(MAX_TREE_DEPTH - 1) |-> None]

\* A BPC summary record, reduced to what the path code reads: the frame, its
\* inertial frame, is_empty(), and whether its segment covers the query epoch.
Summary(frame, inertial) ==
    [frame_id |-> frame, inertial_frame_id |-> inertial, empty |-> FALSE, covers |-> TRUE,
     malformed |-> FALSE]

\* The zeroed summary that fills the unused slots of a summary record.
EmptySummary ==
    [frame_id |-> 0, inertial_frame_id |-> 0, empty |-> TRUE, covers |-> FALSE,
     malformed |-> FALSE]

\* A loaded BPC whose summary record cannot be read: data_summaries() and
\* every lookup in the file return an error.  The file is kept as the one
\* mark that stands where its summaries would.
MalformedFile ==
    <<[frame_id |-> 0, inertial_frame_id |-> 0, empty |-> TRUE, covers |-> FALSE,
       malformed |-> TRUE]>>

\* Results: Ok((len, path, node)) or Err(status); "panic" is an index out of
\* the bounds of a path array.
Ok(len, path, node) == [status |-> "Ok", len |-> len, path |-> path, node |-> node]
Err(status) == [status |-> status, len |-> 0, path |-> NoPath, node |-> 0]

\* self.num_loaded_bpc()
num_loaded_bpc(self) == Len(self.bpc_data)

\* The summaries in the order try_find_orientation_root reads them: the
\* loaded BPCs last to first, the summaries of each in file order.
RECURSIVE SummariesReversed(_, _)
SummariesReversed(bpc_data, n) ==
    IF n = 0 THEN <<>>
    ELSE bpc_data[n] \o SummariesReversed(bpc_data, n - 1)

\* The loop over the BPC summaries of try_find_orientation_root.
RECURSIVE ScanSummaries(_, _, _)
ScanSummaries(summaries, i, common_center) ==
    IF i > Len(summaries)
    THEN [found |-> FALSE, failed |-> FALSE, common_center |-> common_center]
    ELSE IF summaries[i].malformed
         THEN [found |-> FALSE, failed |-> TRUE, common_center |-> common_center]
         ELSE IF ~summaries[i].empty
                 /\ Abs(summaries[i].inertial_frame_id) < Abs(common_center)
              THEN IF summaries[i].inertial_frame_id = J2000
                   THEN [found |-> TRUE, failed |-> FALSE, common_center |-> J2000]
                   ELSE ScanSummaries(summaries, i + 1, summaries[i].inertial_frame_id)
              ELSE ScanSummaries(summaries, i + 1, common_center)

\* The loop over the planetary data of try_find_orientation_root.
RECURSIVE ScanPlanetary(_, _, _)
ScanPlanetary(planetary_data, i, common_center) ==
    IF i > Len(planetary_data)
    THEN [found |-> FALSE, common_center |-> common_center]
    ELSE IF planetary_data[i].parent_id < common_center
         THEN IF planetary_data[i].parent_id = J2000
              THEN [found |-> TRUE, common_center |-> J2000]
              ELSE ScanPlanetary(planetary_data, i + 1, planetary_data[i].parent_id)
         ELSE ScanPlanetary(planetary_data, i + 1, common_center)

\* try_find_orientation_root without the ensure! of its first lines.
tryFindRootNoEnsure(self) ==
    LET b == ScanSummaries(SummariesReversed(self.bpc_data, num_loaded_bpc(self)),
                            1, I32_MAX)
    IN  IF b.failed
        THEN Err("BPC")
        ELSE IF b.found
        THEN Ok(0, NoPath, b.common_center)
        ELSE LET p == ScanPlanetary(self.planetary_data, 1, b.common_center) IN
             IF p.found
             THEN Ok(0, NoPath, p.common_center)
             ELSE IF p.common_center = ECLIPJ2000
                  THEN Ok(0, NoPath, J2000)
                  ELSE Ok(0, NoPath, p.common_center)

\* Almanac::try_find_orientation_root
try_find_orientation_root(self) ==
    IF ~(num_loaded_bpc(self) > 0 \/ Len(self.planetary_data) > 0)
    THEN Err("NoOrientationsLoaded")
    ELSE LET b == ScanSummaries(SummariesReversed(self.bpc_data, num_loaded_bpc(self)),
                                1, I32_MAX)
         IN  IF b.failed
             THEN Err("BPC")
             ELSE IF b.found
             THEN Ok(0, NoPath, b.common_center)
             ELSE LET p == ScanPlanetary(self.planetary_data, 1, b.common_center) IN
                  IF p.found
                  THEN Ok(0, NoPath, p.common_center)
                  ELSE IF p.common_center = ECLIPJ2000
                       THEN Ok(0, NoPath, J2000)
                       ELSE Ok(0, NoPath, p.common_center)

\* Almanac::bpc_summary_at_epoch: the loaded BPCs last to first, and in each
\* the first summary of that frame whose segment covers the epoch.  With no
\* such summary the lookup fails for lack of coverage ("OutOfCoverage"); a
\* file that cannot be read fails it with "MalformedFile" when it is reached.
bpc_summary_at_epoch(self, id) ==
    LET summaries == SummariesReversed(self.bpc_data, num_loaded_bpc(self))
        hits == {i \in 1..Len(summaries) :
                    \/ summaries[i].malformed
                    \/ summaries[i].frame_id = id /\ summaries[i].covers}
    IN  IF hits = {}
        THEN [ok |-> FALSE, err |-> "OutOfCoverage", summary |-> EmptySummary]
        ELSE LET hit == summaries[CHOOSE i \in hits : \A j \in hits : i <= j] IN
             IF hit.malformed
             THEN [ok |-> FALSE, err |-> "MalformedFile", summary |-> EmptySummary]
             ELSE [ok |-> TRUE, err |-> "none", summary |-> hit]

\* self.planetary_data.get_by_id(id)
get_by_id(planetary_data, id) ==
    LET hits == {i \in 1..Len(planetary_data) : planetary_data[i].object_id = id} IN
    IF hits = {}
    THEN [ok |-> FALSE, parent_id |-> 0]
    ELSE [ok |-> TRUE,
          parent_id |-> planetary_data[CHOOSE i \in hits : \A j \in hits : i <= j].parent_id]

\* One hop of orientation_path_to_root: the inertial frame of the BPC summary
\* or, when that lookup fails with any error (Err(_)), the parent of the
\* planetary data.
Hop(self, id) ==
    LET s == bpc_summary_at_epoch(self, id) IN
    IF s.ok
    THEN [ok |-> TRUE, id |-> s.summary.inertial_frame_id]
    ELSE LET p == get_by_id(self.planetary_data, id) IN
         IF p.ok
         THEN [ok |-> TRUE, id |-> p.parent_id]
         ELSE [ok |-> FALSE, id |-> 0]

\* for _ in 0..MAX_TREE_DEPTH - 1 { .. } of orientation_path_to_root, with
\* `left` iterations to go.
RECURSIVE PathLoop(_, _, _, _, _, _)

\* The loop comparing the hop with the root before it writes the hop.
PathLoopStopBeforeWrite(self, common_center, left, inertial_frame_id, of_path, of_path_len) ==
    IF left = 0
    THEN Err("MaxRecursionDepth")
    ELSE LET h == Hop(self, inertial_frame_id) IN
         IF ~h.ok
         THEN Err("OrientationDataSet")
         ELSE IF h.id = common_center
              THEN Ok(of_path_len, of_path, common_center)
              ELSE IF of_path_len >= MAX_TREE_DEPTH
                   THEN Err("panic")
                   ELSE PathLoop(self, common_center, left - 1, h.id,
                                 [of_path EXCEPT ![of_path_len] = Some(h.id)],
                                 of_path_len + 1)

PathLoop(self, common_center, left, inertial_frame_id, of_path, of_path_len) ==
    IF left = 0
    THEN Err("MaxRecursionDepth")
    ELSE LET h == Hop(self, inertial_frame_id) IN
         IF ~h.ok
         THEN Err("OrientationDataSet")
         ELSE IF of_path_len >= MAX_TREE_DEPTH
              THEN Err("panic")
              ELSE LET path == [of_path EXCEPT ![of_path_len] = Some(h.id)] IN
                   IF h.id = common_center
                   THEN Ok(of_path_len + 1, path, common_center)
                   ELSE PathLoop(self, common_center, left - 1, h.id, path, of_path_len + 1)

\* Almanac::orientation_path_to_root, of the frame's orientation id.
orientation_path_to_root(self, source) ==
    LET root == try_find_orientation_root(self) IN
    IF root.status # "Ok"
    THEN root
    ELSE LET common_center == root.node IN
         IF common_center = source
         THEN Ok(0, NoPath, common_center)
         ELSE LET h == Hop(self, source) IN
              IF ~h.ok
              THEN Err("OrientationDataSet")
              ELSE LET path1 == [NoPath EXCEPT ![0] = Some(h.id)]
                       path2 == [path1 EXCEPT ![1] = Some(J2000)]
                   IN  IF h.id = ECLIPJ2000
                       THEN IF J2000 = common_center
                            THEN Ok(2, path2, common_center)
                            ELSE PathLoop(self, common_center, MAX_TREE_DEPTH - 1,
                                          J2000, path2, 2)
                       ELSE IF h.id = common_center
                            THEN Ok(1, path1, common_center)
                            ELSE PathLoop(self, common_center, MAX_TREE_DEPTH - 1,
                                          h.id, path1, 1)

\* The two nested loops of common_orientation_path, at to_path[ti] and
\* from_path[fi] (fi = 0: the outer loop is entering its body).
RECURSIVE CommonLoop(_, _, _, _, _, _, _, _)

\* The loops returning, where the paths meet, the node they wrote last.
CommonLoopReturningLastWritten(from_id, to_id, f, t, ti, fi, items, common_path) ==
    IF ti >= t.len
    THEN Err("RotationOrigin")
    ELSE IF fi = 0 /\ t.path[ti] = Some(from_id)
         THEN Ok(1, [common_path EXCEPT ![0] = Some(from_id)], from_id)
         ELSE IF fi >= f.len
              THEN CommonLoop(from_id, to_id, f, t, ti + 1, 0, items, common_path)
              ELSE IF items = 0 /\ f.path[fi] = Some(to_id)
                   THEN Ok(1, [common_path EXCEPT ![0] = Some(to_id)], to_id)
                   ELSE IF f.path[fi] = t.path[ti]
                        THEN Ok(items, common_path,
                                IF items = 0 THEN t.path[ti][1]
                                ELSE common_path[items - 1][1])
                        ELSE IF items >= MAX_TREE_DEPTH
                             THEN Err("panic")
                             ELSE CommonLoop(from_id, to_id, f, t, ti, fi + 1, items + 1,
                                             [common_path EXCEPT ![items] = f.path[fi]])

CommonLoop(from_id, to_id, f, t, ti, fi, items, common_path) ==
    IF ti >= t.len
    THEN Err("RotationOrigin")
    ELSE IF fi = 0 /\ t.path[ti] = Some(from_id)
         THEN Ok(1, [common_path EXCEPT ![0] = Some(from_id)], from_id)
         ELSE IF fi >= f.len
              THEN CommonLoop(from_id, to_id, f, t, ti + 1, 0, items, common_path)
              ELSE IF items = 0 /\ f.path[fi] = Some(to_id)
                   THEN Ok(1, [common_path EXCEPT ![0] = Some(to_id)], to_id)
                   ELSE IF f.path[fi] = t.path[ti]
                        THEN Ok(items, common_path, t.path[ti][1])
                        ELSE IF items >= MAX_TREE_DEPTH
                             THEN Err("panic")
                             ELSE CommonLoop(from_id, to_id, f, t, ti, fi + 1, items + 1,
                                             [common_path EXCEPT ![items] = f.path[fi]])

\* Almanac::common_orientation_path
common_orientation_path(self, from_frame, to_frame) ==
    IF from_frame = to_frame
    THEN Ok(0, NoPath, from_frame.orientation_id)
    ELSE LET f == orientation_path_to_root(self, from_frame.orientation_id) IN
         IF f.status # "Ok"
         THEN f
         ELSE LET t == orientation_path_to_root(self, to_frame.orientation_id) IN
              IF t.status # "Ok"
              THEN t
              ELSE IF f.len = 0 /\ t.len = 0
                   THEN Err("RotationOrigin")
                   ELSE IF f.len # 0 /\ t.len = 0
                        THEN Ok(f.len, f.path, to_frame.orientation_id)
                        ELSE IF t.len # 0 /\ f.len = 0
                             THEN Ok(t.len, t.path, from_frame.orientation_id)
                             ELSE CommonLoop(from_frame.orientation_id,
                                             to_frame.orientation_id,
                                             f, t, 0, 0, 0, NoPath)

(***************************************************************************)
(* Rotation composition (rotate_from_to), after section 4.5 of the         *)
(* specification.  A DCM is kept as the hops it is the product of: the     *)
(* rotation of frame x to its parent is the hop [frame |-> x, transposed   *)
(* |-> FALSE], its transpose the same hop with transposed |-> TRUE, and a  *)
(* hop next to its own transpose is the identity.  The derivative matrix   *)
(* follows the same products and transposes, so the hops stand for both.   *)
(***************************************************************************)

\* The rotation of one frame to its parent; Ecliptic J2000 -> J2000 is the
\* fixed rotation.
ToParent(x) == [frame |-> x, transposed |-> FALSE]

RECURSIVE Reverse(_)
Reverse(w) == IF w = <<>> THEN <<>> ELSE Reverse(Tail(w)) \o <<Head(w)>>

\* DCM::transpose of a product: the transposed factors in reverse order.
Transpose(w) ==
    LET r == Reverse(w) IN
    [i \in 1..Len(r) |-> [r[i] EXCEPT !.transposed = ~r[i].transposed]]

\* The product of two DCMs, the first applied first.
RECURSIVE Mul(_, _)
Mul(a, b) ==
    IF a # <<>> /\ b # <<>>
       /\ a[Len(a)].frame = b[1].frame
       /\ a[Len(a)].transposed # b[1].transposed
    THEN Mul(SubSeq(a, 1, Len(a) - 1), Tail(b))
    ELSE a \o b

\* The leg of a frame to the common node, p being its path to the root: the
\* rotations to the parent of the frame and of every node of the path
\* before the common node.
LegUpTo(p, id, k) ==
    <<ToParent(id)>> \o [i \in 1..k |-> ToParent(p.path[i - 1][1])]

Leg(p, id, node) ==
    IF id = node
    THEN [ok |-> TRUE, rot |-> <<>>]
    ELSE IF p.status # "Ok" \/ \A i \in 0..(p.len - 1) : p.path[i] # Some(node)
         THEN [ok |-> FALSE, rot |-> <<>>]
         ELSE [ok |-> TRUE,
               rot |-> LegUpTo(p, id, CHOOSE i \in 0..(p.len - 1) :
                                         /\ p.path[i] = Some(node)
                                         /\ \A j \in 0..(i - 1) : p.path[j] # Some(node))]

DcmErr(status) == [status |-> status, from |-> 0, to |-> 0, rot_mat |-> <<>>]

\* The product of the from leg with the transposed to leg.
Compose(from_id, to_id, f, t) ==
    IF ~f.ok \/ ~t.ok
    THEN DcmErr("Unreachable")
    ELSE [status |-> "Ok", from |-> from_id, to |-> to_id,
          rot_mat |-> Mul(f.rot, Transpose(t.rot))]

\* The legs of the two frames to the common node c.node.
ComposeAt(self, from_id, to_id, c) ==
    IF c.status # "Ok"
    THEN DcmErr(c.status)
    ELSE Compose(from_id, to_id,
                 Leg(orientation_path_to_root(self, from_id), from_id, c.node),
                 Leg(orientation_path_to_root(self, to_id), to_id, c.node))

\* Almanac::rotate_from_to: the common node of the two frames, the leg of
\* each to it, and the product of the from leg with the transposed to leg.
rotate_from_to(self, from_frame, to_frame) ==
    ComposeAt(self, from_frame.orientation_id, to_frame.orientation_id,
              common_orientation_path(self, from_frame, to_frame))

(***************************************************************************)
(* The almanacs and the queries the model draws                            *)
(***************************************************************************)

\* Bounds of the almanacs.
MaxChain == 9
MaxBranch == 2
MaxCenters == 2

\* constants::orientations::ITRF93, the NAIF id of the Earth body-fixed frame.
ITRF93 == 3000

\* The frames of a chain of body-fixed frames, and of a branch that joins it.
Chain(k) == 100 + k
Branch(k) == 200 + k

\* constants::celestial_objects::EARTH, the NAIF id of the Earth.
EARTH == 399

Frame(ephemeris_id, orientation_id) ==
    [ephemeris_id |-> ephemeris_id, orientation_id |-> orientation_id]

SeqsUpTo(S, n) == UNION {[1..k -> S] : k \in 0..n}

NonEmpty(files) == SelectSeq(files, LAMBDA file : file # <<>>)

\* Chain(1) -> Chain(2) -> .. -> Chain(len) -> base, one summary per hop,
\* followed by the unused slot of the summary record.
ChainFile(len, base) ==
    IF len = 0 THEN <<>>
    ELSE [k \in 1..len |-> Summary(Chain(k), IF k < len THEN Chain(k + 1) ELSE base)]
            \o <<EmptySummary>>

\* Branch(1) -> .. -> Branch(len) -> join, as (frame, parent) pairs.
BranchHops(len, join) ==
    [k \in 1..len |-> <<Branch(k), IF k < len THEN Branch(k + 1) ELSE join>>]

BranchFile(hops) ==
    IF hops = <<>> THEN <<>>
    ELSE [k \in 1..Len(hops) |-> Summary(hops[k][1], hops[k][2])] \o <<EmptySummary>>

BranchDataset(hops) ==
    [k \in 1..Len(hops) |-> [object_id |-> hops[k][1], parent_id |-> hops[k][2]]]

\* A BPC for ITRF93: none, given in J2000, given in the ecliptic frame, or
\* given in the ecliptic frame beside a summary that hangs J2000 on the chain.
LinkFile(link) ==
    CASE link = "none"     -> <<>>
      [] link = "j2000"    -> <<Summary(ITRF93, J2000), EmptySummary>>
      [] link = "ecliptic" -> <<Summary(ITRF93, ECLIPJ2000), EmptySummary>>
      [] link = "hung"     -> <<Summary(ITRF93, ECLIPJ2000), Summary(J2000, Chain(1)),
                                EmptySummary>>

\* The almanacs of the path queries: a chain of up to MaxChain frames down to
\* an inertial frame (J2000, the ecliptic frame, or the frame of id 2) or
\* back to its own head, a branch of up to MaxBranch
\* frames joining it, held by a BPC or by the planetary dataset, and a BPC
\* for ITRF93.
TreeAlmanacs ==
    {[bpc_data |-> NonEmpty(<<ChainFile(len, base),
                              IF inBpc THEN BranchFile(BranchHops(blen, join)) ELSE <<>>,
                              LinkFile(link)>>),
      planetary_data |-> IF inBpc THEN <<>> ELSE BranchDataset(BranchHops(blen, join))] :
        len \in 0..MaxChain,
        base \in {J2000, ECLIPJ2000, 2, Chain(1)},
        blen \in 0..MaxBranch,
        join \in {J2000, Chain(2), Chain(3)},
        inBpc \in BOOLEAN,
        link \in {"none", "j2000", "ecliptic", "hung"}}

\* The ids the root discovery is tried on.
Centers == {-5, 0, J2000, 2, ECLIPJ2000}

\* The almanacs of the root discovery: up to MaxCenters summaries (unused
\* slots among them) in one BPC or in one BPC each, and a planetary dataset
\* of up to MaxCenters bodies.
RootAlmanacs ==
    {[bpc_data |-> IF oneFile THEN <<summaries>>
                   ELSE [i \in 1..Len(summaries) |-> <<summaries[i]>>],
      planetary_data |-> [i \in 1..Len(parents) |->
                            [object_id |-> Branch(i), parent_id |-> parents[i]]]] :
        summaries \in SeqsUpTo({Summary(ITRF93, c) : c \in Centers} \cup {EmptySummary},
                               MaxCenters),
        parents \in SeqsUpTo(Centers, MaxCenters),
        oneFile \in BOOLEAN}

QueryFrames ==
    {Frame(EARTH, o) : o \in {J2000, ITRF93, Chain(1), Chain(2), Chain(4), Branch(1)}}
        \cup {Frame(EARTH + 1, J2000)}

AlmanacInit(almanacs) ==
    /\ almanac \in almanacs
    /\ query = NoQuery
    /\ answer = NoAnswer
    /\ by_id = <<>>
    /\ by_name = <<>>
    /\ call = NoCall
    /\ ret = "none"
    /\ decoded = <<>>
    /\ history = "unique_appends"

\* almanac.try_find_orientation_root()
FindRoot ==
    /\ query.kind = "idle"
    /\ query' = [NoQuery EXCEPT !.kind = "try_find_orientation_root"]
    /\ answer' = try_find_orientation_root(almanac)
    /\ UNCHANGED <<almanac, lutVars>>

\* almanac.orientation_path_to_root(source, epoch)
PathToRoot(source) ==
    /\ query.kind = "idle"
    /\ query' = [NoQuery EXCEPT !.kind = "orientation_path_to_root", !.from = source]
    /\ answer' = orientation_path_to_root(almanac, source.orientation_id)
    /\ UNCHANGED <<almanac, lutVars>>

\* almanac.common_orientation_path(from_frame, to_frame, epoch)
CommonPath(from_frame, to_frame) ==
    /\ query.kind = "idle"
    /\ query' = [kind |-> "common_orientation_path", from |-> from_frame, to |-> to_frame]
    /\ answer' = common_orientation_path(almanac, from_frame, to_frame)
    /\ UNCHANGED <<almanac, lutVars>>

\* almanac.rotate_from_to(from_frame, to_frame, epoch)
Rotate(from_frame, to_frame) ==
    /\ query.kind = "idle"
    /\ query' = [kind |-> "rotate_from_to", from |-> from_frame, to |-> to_frame]
    /\ answer' = rotate_from_to(almanac, from_frame, to_frame)
    /\ UNCHANGED <<almanac, lutVars>>

\* The caller takes the answer.
ReturnAnswer ==
    /\ query.kind # "idle"
    /\ query' = NoQuery
    /\ answer' = NoAnswer
    /\ UNCHANGED <<almanac, lutVars>>

RootNext ==
    \/ FindRoot
    \/ ReturnAnswer

PathNext ==
    \/ FindRoot
    \/ \E source \in QueryFrames : PathToRoot(source)
    \/ \E from_frame \in QueryFrames, to_frame \in QueryFrames :
          CommonPath(from_frame, to_frame)
    \/ \E from_frame \in QueryFrames, to_frame \in QueryFrames :
          Rotate(from_frame, to_frame)
    \/ ReturnAnswer

\* The almanacs of TreeAlmanacs with short files, loaded after a BPC that
\* cannot be read.
MalformedAlmanacs ==
    {[a EXCEPT !.bpc_data = <<MalformedFile>> \o @] :
        a \in {t \in TreeAlmanacs :
                  \A b \in DOMAIN t.bpc_data : Len(t.bpc_data[b]) <= MaxBranch + 1}}

RootInit == AlmanacInit(RootAlmanacs)

MalformedInit == AlmanacInit(MalformedAlmanacs)

PathInit == AlmanacInit(TreeAlmanacs)

\* The lookup table, filled call by call.
Spec == LutInit /\ [][LutNext]_vars

\* from_der, on the encodings of Ders.
SpecDecode == DecodeInit /\ [][DecodeNext]_vars

\* The root discovery, on the almanacs of RootAlmanacs.
SpecRoot == RootInit /\ [][RootNext]_vars

\* The path queries, on the almanacs of TreeAlmanacs.
SpecPath == PathInit /\ [][PathNext]_vars

\* The path queries, on the almanacs of MalformedAlmanacs.
SpecMalformed == MalformedInit /\ [][PathNext]_vars

(***************************************************************************)
(* Part 3: astro/aberration.rs                                             *)
(***************************************************************************)

\* An f64: a number of the grid, or NaN.
F(x) == [nan |-> FALSE, val |-> x]
NaN == [nan |-> TRUE, val |-> 0]

\* f64 negation, addition, multiplication and subtraction: NaN propagates.
FNeg(a) == IF a.nan THEN NaN ELSE F(0 - a.val)
FAdd(a, b) == IF a.nan \/ b.nan THEN NaN ELSE F(a.val + b.val)
FMul(a, b) == IF a.nan \/ b.nan THEN NaN ELSE F(a.val * b.val)
FSub(a, b) == FAdd(a, FNeg(b))

\* Vector3: dot product, cross product and negation.
Dot(a, b) == FAdd(FAdd(FMul(a[1], b[1]), FMul(a[2], b[2])), FMul(a[3], b[3]))
Cross(a, b) ==
    << FSub(FMul(a[2], b[3]), FMul(a[3], b[2])),
       FSub(FMul(a[3], b[1]), FMul(a[1], b[3])),
       FSub(FMul(a[1], b[2]), FMul(a[2], b[1])) >>
VNeg(a) == << FNeg(a[1]), FNeg(a[2]), FNeg(a[3]) >>

\* use crate::constants::SPEED_OF_LIGHT_KM_S: velocities are counted in
\* fifths of the speed of light, so that (3, 4, 0) has exactly that speed.
SPEED_OF_LIGHT_KM_S == 5

\* The components of the vectors the model draws.
VelocityComponents == {NaN} \cup {F(x) : x \in {-3, 0, 3, 4, 5}}
PositionComponents == {F(x) : x \in {0, 1}}
Velocities == {<<x, y, z>> : x \in VelocityComponents, y \in VelocityComponents, z \in {NaN, F(0), F(4)}}
Positions == {<<x, y, F(0)>> : x \in PositionComponents, y \in PositionComponents}

\* pub struct Aberration { converged, stellar, transmit_mode }
Aberrations == [converged : BOOLEAN, stellar : BOOLEAN, transmit_mode : BOOLEAN]

\* What onebyc * v and the dot product round to when the speed is exactly
\* the speed of light: 1.0, or the float just below it.
Roundings == {"to_one", "below_one"}

\* vbyc.dot(&vbyc) < 1.0 with vbyc = (1.0 / SPEED_OF_LIGHT_KM_S) * v, in
\* f64. A comparison with NaN is false. Off the boundary the grid is far
\* coarser than the rounding, and the comparison is that of v.v with c^2.
DotBelowOne(v, rounding) ==
    LET d == Dot(v, v)
        cc == SPEED_OF_LIGHT_KM_S * SPEED_OF_LIGHT_KM_S
    IN  /\ ~d.nan
        /\ \/ d.val < cc
           \/ d.val = cc /\ rounding = "below_one"

\* h.norm().abs() > EPSILON with h = u.cross(&vbyc) and u the normalized
\* target position: a zero position normalizes to NaN, and NaN > EPSILON
\* is false.
SinPhiAboveEpsilon(target_pos_km, v) ==
    LET h == Cross(target_pos_km, v) IN
    /\ \E i \in 1..3 : target_pos_km[i] # F(0)
    /\ \A i \in 1..3 : ~h[i].nan
    /\ \E i \in 1..3 : h[i] # F(0)

AberrationErr(kind) == [ok |-> FALSE, err |-> kind, value |-> <<>>]
AberrationOk(pos) == [ok |-> TRUE, err |-> "none", value |-> <<pos>>]

\* The same function without its first ensure!.
stellarAberrationIgnoringFlag(target_pos_km, obs_wrt_ssb_vel_km_s, ab_corr, rounding) ==
    LET obs_velocity_km_s ==
            IF ab_corr.transmit_mode THEN VNeg(obs_wrt_ssb_vel_km_s)
            ELSE obs_wrt_ssb_vel_km_s
    IN  IF ~DotBelowOne(obs_velocity_km_s, rounding) THEN AberrationErr("Velocity")
        ELSE AberrationOk([position |-> target_pos_km, rotated_about |-> <<>>])

\* pub fn stellar_aberration(target_pos_km, obs_wrt_ssb_vel_km_s, ab_corr)
\* The corrected position is the target position, rotated about h when
\* sin_phi exceeds EPSILON.
stellar_aberration(target_pos_km, obs_wrt_ssb_vel_km_s, ab_corr, rounding) ==
    IF ~ab_corr.stellar THEN AberrationErr("Aberration")
    ELSE
    LET obs_velocity_km_s ==
            IF ab_corr.transmit_mode THEN VNeg(obs_wrt_ssb_vel_km_s)
            ELSE obs_wrt_ssb_vel_km_s
    IN  IF ~DotBelowOne(obs_velocity_km_s, rounding) THEN AberrationErr("Velocity")
        ELSE IF SinPhiAboveEpsilon(target_pos_km, obs_velocity_km_s)
        THEN AberrationOk([position |-> target_pos_km,
                           rotated_about |-> <<Cross(target_pos_km, obs_velocity_km_s)>>])
        ELSE AberrationOk([position |-> target_pos_km, rotated_about |-> <<>>])

\* A caller holding a target position, an observer velocity and a
\* correction, about to ask for the stellar aberration.
AberrationInit ==
    /\ \E p \in Positions, v \in Velocities, ab \in Aberrations, r \in Roundings :
          query = [kind |-> "stellar_aberration", target_pos_km |-> p,
                   obs_wrt_ssb_vel_km_s |-> v, ab_corr |-> ab, rounding |-> r,
                   asked |-> FALSE]
    /\ answer = NoAnswer
    /\ almanac = EmptyAlmanac
    /\ by_id = <<>>
    /\ by_name = <<>>
    /\ history = "unique_appends"
    /\ call = NoCall
    /\ ret = "none"
    /\ decoded = <<>>

\* stellar_aberration(target_pos_km, obs_wrt_ssb_vel_km_s, ab_corr)
StellarAberration ==
    /\ query.kind = "stellar_aberration"
    /\ ~query.asked
    /\ answer' = stellar_aberration(query.target_pos_km, query.obs_wrt_ssb_vel_km_s,
                                    query.ab_corr, query.rounding)
    /\ query' = [query EXCEPT !.asked = TRUE]
    /\ UNCHANGED <<lutVars, almanac>>

AberrationNext == StellarAberration

\* stellar_aberration, on the inputs of AberrationInit.
SpecAberration == AberrationInit /\ [][AberrationNext]_vars

(***************************************************************************)
(* Properties of the lookup table                                          *)
(***************************************************************************)

\* m holds key k with value v.
Has(m, k, v) == \E i \in 1..Len(m) : m[i].key = k /\ m[i].value = v

AppendSucceeded == call.kind = "append" /\ ret = "Ok"

AppendPostcondition ==
    /\ Has(by_id, call.id, call.entry)
    /\ Has(by_name, call.name, call.entry)
    /\ check_integrity(Self)

\* C1 as stated: starting from an empty table, right after each successful
\* append(id, name, e) of any sequence of appends, by_id[id] = by_name[name] = e
\* and check_integrity() is true.
C1_AnyAppends ==
    (history \in {"unique_appends", "appends"} /\ AppendSucceeded) => AppendPostcondition

\* C1 amended: the same, for the sequences of appends in which every call
\* passes an id that is not yet a key of by_id and a name that is not yet a
\* key of by_name.
C1_UniqueAppends ==
    (history = "unique_appends" /\ AppendSucceeded) => AppendPostcondition

C1_Witness ==
    /\ history = "unique_appends"
    /\ AppendSucceeded
    /\ Len(by_id) = MAX_LUT_ENTRIES
    /\ Len(by_name) = MAX_LUT_ENTRIES

\* The step is a call of append.
AppendStep == call.kind = "idle" /\ call'.kind = "append"

\* C2 as stated: append returns StructureIsFull whenever by_id or by_name
\* already holds MAX_LUT_ENTRIES entries, for every id and name.
C2_FullRejectsAll ==
    [][(AppendStep /\ (Len(by_id) = MAX_LUT_ENTRIES \/ Len(by_name) = MAX_LUT_ENTRIES))
          => ret' = "StructureIsFull"]_vars

\* C2 amended: append(id, name, e) returns StructureIsFull whenever by_id
\* already holds MAX_LUT_ENTRIES entries and id is not one of its keys, or
\* by_name already holds MAX_LUT_ENTRIES entries and name is not one of its keys.
C2_FullRejectsNewKeys ==
    [][(AppendStep /\ (\/ Len(by_id) = MAX_LUT_ENTRIES /\ call'.id \notin Keys(by_id)
                       \/ Len(by_name) = MAX_LUT_ENTRIES /\ call'.name \notin Keys(by_name)))
          => ret' = "StructureIsFull"]_vars

C2_Witness ==
    /\ call.kind = "append"
    /\ ret = "StructureIsFull"
    /\ Len(by_name) = MAX_LUT_ENTRIES
    /\ call.name \notin Keys(by_name)
    /\ call.id \in Keys(by_id)

\* C3 as stated: check_integrity() is true exactly when by_id and by_name
\* have the same number of entries and the same set of Entry values.
C3_SameSizeSameValues ==
    call.kind = "check_integrity" =>
        (ret = "true" <=> (Len(by_id) = Len(by_name) /\ Values(by_id) = Values(by_name)))

\* C3 amended: check_integrity() is true exactly when by_id or by_name is
\* empty, or both have the same number of entries and every Entry value of
\* by_id is an Entry value of by_name.
C3_EmptyOrSameSizeSubset ==
    call.kind = "check_integrity" =>
        (ret = "true" <=>
            \/ by_id = <<>>
            \/ by_name = <<>>
            \/ Cardinality(Keys(by_id)) = Cardinality(Keys(by_name))
                  /\ Values(by_id) \subseteq Values(by_name))

C3_Witness ==
    /\ call.kind = "check_integrity"
    /\ ret = "true"
    /\ by_id = <<>>
    /\ Len(by_name) > 0

\* C4: decoding the DER encoding of any table built by append, append_id and
\* append_name yields a table equal to it.
C4_RoundTrip ==
    call.kind = "from_der" => LutEq(decoded[1], Self)

(***************************************************************************)
(* Properties of the orientation paths                                     *)
(***************************************************************************)

RootAsked == query.kind = "try_find_orientation_root"
PathAsked == query.kind = "orientation_path_to_root"
CommonAsked == query.kind = "common_orientation_path"

\* The inertial frame ids of the non-empty summaries of the loaded BPCs and
\* the parent ids of the planetary data.
ObservedCenters(self) ==
    UNION {{self.bpc_data[b][i].inertial_frame_id :
                i \in {j \in DOMAIN self.bpc_data[b] : ~self.bpc_data[b][j].empty}} :
            b \in DOMAIN self.bpc_data}
    \cup {self.planetary_data[i].parent_id : i \in DOMAIN self.planetary_data}

\* C5: if J2000 is the inertial frame id of a non-empty summary of a loaded
\* BPC or the parent id of a planetary-data entry, try_find_orientation_root
\* returns J2000.
C5_J2000IsRoot ==
    (RootAsked /\ J2000 \in ObservedCenters(almanac))
        => (answer.status = "Ok" /\ answer.node = J2000)

\* C6: try_find_orientation_root returns the observed id of smallest absolute
\* value, Ecliptic J2000 being reported as J2000.
C6_SmallestAbsoluteId ==
    (RootAsked /\ ObservedCenters(almanac) # {})
        => /\ answer.status = "Ok"
           /\ \E c \in ObservedCenters(almanac) :
                 /\ \A d \in ObservedCenters(almanac) : Abs(c) <= Abs(d)
                 /\ answer.node = IF c = ECLIPJ2000 THEN J2000 ELSE c

\* The hops orientation_path_to_root looks up from `id`, at most n of them,
\* up to the root: the first hop, J2000 after it when it is Ecliptic J2000,
\* then hop after hop.  failed: a lookup found neither BPC nor planetary data.
RECURSIVE HopsFrom(_, _, _, _, _)
HopsFrom(self, id, root, n, first) ==
    IF n <= 0
    THEN [nodes |-> <<>>, failed |-> FALSE]
    ELSE LET h == Hop(self, id) IN
         IF ~h.ok
         THEN [nodes |-> <<>>, failed |-> TRUE]
         ELSE IF first /\ h.id = ECLIPJ2000
              THEN IF root = J2000
                   THEN [nodes |-> <<ECLIPJ2000, J2000>>, failed |-> FALSE]
                   ELSE LET rest == HopsFrom(self, J2000, root, n - 2, FALSE) IN
                        [nodes |-> <<ECLIPJ2000, J2000>> \o rest.nodes, failed |-> rest.failed]
              ELSE IF h.id = root
                   THEN [nodes |-> <<h.id>>, failed |-> FALSE]
                   ELSE LET rest == HopsFrom(self, h.id, root, n - 1, FALSE) IN
                        [nodes |-> <<h.id>> \o rest.nodes, failed |-> rest.failed]

\* C7: when every hop lookup succeeds, orientation_path_to_root returns the
\* path when the root is reached within MAX_TREE_DEPTH hops (the inserted
\* J2000 hop counted) and MaxRecursionDepth for every longer or cyclic chain;
\* it never indexes past its path array.
C7_PathOrMaxRecursionDepth ==
    LET root == try_find_orientation_root(almanac)
        source == query.from.orientation_id
        hops == HopsFrom(almanac, source, root.node, MAX_TREE_DEPTH + 1, TRUE)
    IN  (PathAsked /\ root.status = "Ok" /\ source # root.node /\ ~hops.failed)
            => IF Len(hops.nodes) <= MAX_TREE_DEPTH
               THEN /\ answer.status = "Ok"
                    /\ answer.len = Len(hops.nodes)
                    /\ \A i \in 1..Len(hops.nodes) : answer.path[i - 1] = Some(hops.nodes[i])
               ELSE answer.status = "MaxRecursionDepth"

\* The nodes of a path to the root.
Nodes(p) == {p.path[i][1] : i \in 0..(p.len - 1)}

FromPath == orientation_path_to_root(almanac, query.from.orientation_id)
ToPath == orientation_path_to_root(almanac, query.to.orientation_id)

\* The chains of the two query frames meet: a node of the one, the frame
\* itself included, is a node of the other.
ChainsMeet ==
    /\ FromPath.status = "Ok"
    /\ ToPath.status = "Ok"
    /\ (Nodes(FromPath) \cup {query.from.orientation_id})
          \cap (Nodes(ToPath) \cup {query.to.orientation_id}) # {}

\* C8: common_orientation_path returns RotationOrigin only when the two
\* frames share no common ancestor; frames whose chains meet, two frames of
\* the same orientation id among them, get a common node.
C8_DisjointOnlyWhenNoCommonNode ==
    (CommonAsked /\ ChainsMeet) => answer.status # "RotationOrigin"

\* The place of node x on a path, counted from 0.
IndexOn(p, x) == CHOOSE i \in 0..(p.len - 1) : p.path[i] = Some(x)

\* C9: when common_orientation_path succeeds with both root paths non-empty
\* and neither query frame on the other's path, the returned path is the
\* nodes of the from-frame's path that precede the common node, in order, and
\* the returned length is their count.
C9_PrefixOfFromPath ==
    (/\ CommonAsked
     /\ answer.status = "Ok"
     /\ query.from # query.to
     /\ FromPath.len > 0
     /\ ToPath.len > 0
     /\ query.from.orientation_id \notin Nodes(ToPath)
     /\ query.to.orientation_id \notin Nodes(FromPath))
        => /\ answer.node \in Nodes(FromPath)
           /\ answer.len = IndexOn(FromPath, answer.node)
           /\ \A i \in 0..(MAX_TREE_DEPTH - 1) :
                 answer.path[i] = IF i < answer.len THEN FromPath.path[i] ELSE None

\* C10: if the orientation id of one query frame is on the other query
\* frame's path to the root, common_orientation_path returns that id as the
\* common node, whichever of the two is the from-frame.
C10_AncestorIsCommonNode ==
    (/\ CommonAsked
     /\ query.from # query.to
     /\ FromPath.status = "Ok"
     /\ ToPath.status = "Ok")
        => /\ query.to.orientation_id \in Nodes(FromPath)
                => (answer.status = "Ok" /\ answer.node = query.to.orientation_id)
           /\ query.from.orientation_id \in Nodes(ToPath)
                => (answer.status = "Ok" /\ answer.node = query.from.orientation_id)

\* Nothing is loaded: no BPC and an empty planetary dataset.
NothingLoaded == almanac.bpc_data = <<>> /\ almanac.planetary_data = <<>>

\* C11 as stated: with nothing loaded, try_find_orientation_root,
\* orientation_path_to_root and common_orientation_path fail with
\* NoOrientationsLoaded for every frame argument.
C11_NothingLoadedAlwaysFails ==
    (NothingLoaded /\ (RootAsked \/ PathAsked \/ CommonAsked))
        => answer.status = "NoOrientationsLoaded"

\* C11 amended: with nothing loaded, try_find_orientation_root and
\* orientation_path_to_root fail with NoOrientationsLoaded for every frame,
\* and so does common_orientation_path for every two frames that differ; for
\* two equal frames it returns the empty path and the frame's orientation id.
C11_NothingLoadedFailsUnlessSameFrame ==
    (NothingLoaded /\ (RootAsked \/ PathAsked \/ CommonAsked))
        => IF CommonAsked /\ query.from = query.to
           THEN answer = Ok(0, NoPath, query.from.orientation_id)
           ELSE answer.status = "NoOrientationsLoaded"

C11_Witness ==
    /\ NothingLoaded
    /\ CommonAsked
    /\ query.from # query.to
    /\ answer.status = "NoOrientationsLoaded"

RotateAsked == query.kind = "rotate_from_to"

\* C12: whenever rotate_from_to(A, B, t) succeeds, rotate_from_to(B, A, t)
\* succeeds too, with the from and to ids swapped and with the transposed
\* rotation matrix and derivative.
C12_ReverseIsTranspose ==
    (RotateAsked /\ answer.status = "Ok")
        => rotate_from_to(almanac, query.to, query.from)
              = [status |-> "Ok", from |-> answer.to, to |-> answer.from,
                 rot_mat |-> Transpose(answer.rot_mat)]

\* C13: for two root paths of at most MAX_TREE_DEPTH hops each,
\* common_orientation_path writes no index of common_path past its last
\* slot, and the length it returns is at most MAX_TREE_DEPTH.
C13_CommonPathWithinBounds ==
    (/\ CommonAsked
     /\ FromPath.status = "Ok" /\ FromPath.len <= MAX_TREE_DEPTH
     /\ ToPath.status = "Ok" /\ ToPath.len <= MAX_TREE_DEPTH)
        => /\ answer.status # "panic"
           /\ answer.status = "Ok" => answer.len <= MAX_TREE_DEPTH

\* The first BPC lookup of the walk from `id` to the root that fails for
\* another reason than coverage, "none" when the walk has none within n hops.
RECURSIVE FirstLookupError(_, _, _, _, _)
FirstLookupError(self, id, root, n, first) ==
    LET s == bpc_summary_at_epoch(self, id)
        h == Hop(self, id)
        next == IF first /\ h.id = ECLIPJ2000 THEN J2000 ELSE h.id
    IN  IF n <= 0 THEN "none"
        ELSE IF ~s.ok /\ s.err # "OutOfCoverage" THEN s.err
        ELSE IF ~h.ok \/ next = root THEN "none"
        ELSE FirstLookupError(self, next, root, n - 1, FALSE)

\* C14: a BPC lookup of orientation_path_to_root that fails for another
\* reason than coverage is returned to the caller; the planetary dataset is
\* consulted for a hop only after a lookup that failed for lack of coverage.
C14_FallbackOnlyWhenOutOfCoverage ==
    LET root == try_find_orientation_root(almanac)
        source == query.from.orientation_id
    IN  (/\ PathAsked
         /\ root.status = "Ok"
         /\ source # root.node
         /\ FirstLookupError(almanac, source, root.node, MAX_TREE_DEPTH, TRUE) # "none")
            => answer.status \notin {"Ok", "OrientationDataSet"}

\* The hops from `id` up to the root, at most n of them, with J2000 put
\* after Ecliptic J2000 wherever a hop resolves to it, frame 17 not being
\* looked up.  failed: a lookup found neither BPC nor planetary data.
RECURSIVE HopsInsertingJ2000(_, _, _, _)
HopsInsertingJ2000(self, id, root, n) ==
    IF n <= 0
    THEN [nodes |-> <<>>, failed |-> FALSE]
    ELSE LET h == Hop(self, id) IN
         IF ~h.ok
         THEN [nodes |-> <<>>, failed |-> TRUE]
         ELSE IF h.id = root
              THEN [nodes |-> <<h.id>>, failed |-> FALSE]
              ELSE IF h.id = ECLIPJ2000
                   THEN IF root = J2000
                        THEN [nodes |-> <<ECLIPJ2000, J2000>>, failed |-> FALSE]
                        ELSE LET rest == HopsInsertingJ2000(self, J2000, root, n - 2) IN
                             [nodes |-> <<ECLIPJ2000, J2000>> \o rest.nodes,
                              failed |-> rest.failed]
                   ELSE LET rest == HopsInsertingJ2000(self, h.id, root, n - 1) IN
                        [nodes |-> <<h.id>> \o rest.nodes, failed |-> rest.failed]

\* C15: whenever a hop of orientation_path_to_root resolves to Ecliptic
\* J2000, at any depth, the next entry of the path is J2000, and frame 17 is
\* looked up neither in the BPCs nor in the planetary dataset.
C15_J2000AfterEclipticAtAnyDepth ==
    LET root == try_find_orientation_root(almanac)
        source == query.from.orientation_id
        hops == HopsInsertingJ2000(almanac, source, root.node, MAX_TREE_DEPTH + 1)
    IN  (/\ PathAsked
         /\ root.status = "Ok"
         /\ source # root.node
         /\ ~hops.failed
         /\ Len(hops.nodes) <= MAX_TREE_DEPTH
         /\ \E i \in 1..Len(hops.nodes) : hops.nodes[i] = ECLIPJ2000)
            => /\ answer.status = "Ok"
               /\ answer.len = Len(hops.nodes)
               /\ \A i \in 1..Len(hops.nodes) : answer.path[i - 1] = Some(hops.nodes[i])

\* C16: a successful orientation_path_to_root has length 0 exactly when the
\* source orientation id is the root of try_find_orientation_root; otherwise
\* its last filled entry is that root, no earlier entry is, and every slot
\* past the length is empty.
C16_PathEndsAtRoot ==
    LET root == try_find_orientation_root(almanac).node
        source == query.from.orientation_id
    IN  (PathAsked /\ answer.status = "Ok")
            => /\ answer.len = 0 <=> source = root
               /\ answer.len > 0 =>
                     /\ answer.path[answer.len - 1] = Some(root)
                     /\ \A i \in 0..(answer.len - 2) : answer.path[i] # Some(root)
               /\ \A i \in answer.len..(MAX_TREE_DEPTH - 1) : answer.path[i] = None

C16_Witness ==
    /\ PathAsked
    /\ answer.status = "Ok"
    /\ answer.len = MAX_TREE_DEPTH
    /\ answer.path[0] = Some(ECLIPJ2000)

\* The positions of a key sequence that have an entry.
Zipped(keys, entries) == 1..Min(Len(keys), Len(entries))

\* C17 as stated: decode never rejects a table, and the table it returns
\* holds every id and every name that has an entry at its position, with
\* that entry.
C17_EveryPositionDecoded ==
    call.kind = "decoded" =>
        LET der == DerOf(call) IN
        /\ ret = "Ok"
        /\ \A i \in Zipped(der.ids, der.entries) :
              Has(decoded[1].by_id, der.ids[i], der.entries[i])
        /\ \A i \in Zipped(der.names, der.entries) :
              Has(decoded[1].by_name, der.names[i], der.entries[i])

\* The last position with an entry at which a key sequence holds k.
LastOf(keys, entries, k) ==
    CHOOSE i \in Zipped(keys, entries) :
        keys[i] = k /\ \A j \in Zipped(keys, entries) : keys[j] = k => j <= i

\* C17 amended: decode never rejects a table, and the table it returns
\* holds every id and every name that has an entry at its position, with
\* the entry at the last position of that id or name.
C17_LastPositionDecoded ==
    call.kind = "decoded" =>
        LET der == DerOf(call) IN
        /\ ret = "Ok"
        /\ \A i \in Zipped(der.ids, der.entries) :
              Has(decoded[1].by_id, der.ids[i],
                  der.entries[LastOf(der.ids, der.entries, der.ids[i])])
        /\ \A i \in Zipped(der.names, der.entries) :
              Has(decoded[1].by_name, der.names[i],
                  der.entries[LastOf(der.names, der.entries, der.names[i])])

C17_Witness ==
    /\ call.kind = "decoded"
    /\ Len(call.id) > Len(call.name)
    /\ Len(call.name) > 0
    /\ ~check_integrity(decoded[1])
    /\ Len(decoded[1].by_id) = MaxDer

\* C19: whenever append(id, name, e) returns StructureIsFull, the table is
\* unchanged: neither by_id nor by_name has gained or updated an entry.
C19_FullLeavesTableUnchanged ==
    [][(AppendStep /\ ret' = "StructureIsFull")
          => (by_id' = by_id /\ by_name' = by_name)]_vars

\* C20: for every pair of frames A and B, a fixed almanac and epoch,
\* common_orientation_path(A, B, t) and common_orientation_path(B, A, t)
\* either both fail or both succeed with the same common node.
C20_CommonNodeSymmetric ==
    CommonAsked =>
        LET swapped == common_orientation_path(almanac, query.to, query.from) IN
        \/ answer.status # "Ok" /\ swapped.status # "Ok"
        \/ answer.status = "Ok" /\ swapped.status = "Ok" /\ answer.node = swapped.node

\* C21: whenever try_find_orientation_root succeeds, the id it returns is
\* J2000 or one of the inertial frame ids or parent ids present in the
\* loaded BPC summaries or planetary data; it is never the i32::MAX the
\* search starts from.
C21_RootIsObservedOrJ2000 ==
    (RootAsked /\ answer.status = "Ok")
        => /\ answer.node \in ObservedCenters(almanac) \cup {J2000}
           /\ answer.node # I32_MAX

\* The nodes on the path to root of both frames of the query.
OnBothPaths == Nodes(FromPath) \cap Nodes(ToPath)

\* C22: whenever common_orientation_path succeeds for two different frames,
\* the common node it returns is the orientation id of one of the two
\* frames or a node that lies on the path to root of both.
C22_CommonNodeIsEndpointOrShared ==
    (CommonAsked /\ query.from # query.to /\ answer.status = "Ok")
        => \/ answer.node = query.from.orientation_id
           \/ answer.node = query.to.orientation_id
           \/ answer.node \in OnBothPaths

\* The paths of two different frames meet below the root, at a node that
\* is neither of the two frames.
C22_Witness ==
    /\ CommonAsked
    /\ query.from # query.to
    /\ answer.status = "Ok"
    /\ answer.node # query.from.orientation_id
    /\ answer.node # query.to.orientation_id
    /\ answer.node # J2000
    /\ answer.node \in OnBothPaths

(***************************************************************************)
(* Properties of the stellar aberration                                    *)
(***************************************************************************)

StellarAberrationAsked == query.kind = "stellar_aberration" /\ query.asked

HasNaN(v) == \E i \in 1..3 : v[i].nan

\* The square of the speed of a velocity without NaN component.
SquaredSpeed(v) == v[1].val * v[1].val + v[2].val * v[2].val + v[3].val * v[3].val

SquaredLight == SPEED_OF_LIGHT_KM_S * SPEED_OF_LIGHT_KM_S

\* The answer is an error without a position, or a position without error.
ErrorWithoutPosition == ~answer.ok /\ answer.err # "none" /\ answer.value = <<>>
PositionWithoutError == answer.ok /\ answer.err = "none" /\ Len(answer.value) = 1

====
